---------------------------- MODULE Spec2Model ----------------------------
(***************************************************************************)
(* Root-finding solvers of the numerical-methods notebooks: bisection,     *)
(* newton, secant and newton_system.                                       *)
(*                                                                         *)
(* Numbers.  The notebooks compute in binary floating point.  The model    *)
(* keeps what finite precision does to the solvers: the representable      *)
(* numbers of one binade form a uniform grid, so an iterate is an integer  *)
(* counting grid steps (units in the last place), and an operation whose   *)
(* exact result falls between two grid points is rounded to the nearest    *)
(* one, ties to even, as IEEE-754 does.  Sums, differences and products    *)
(* of the small values used here are exact, except the product of two      *)
(* function values in bisection, which underflows to zero when both        *)
(* factors are tiny (1e-200 times 1e-200 is 0.0 in double precision).      *)
(*                                                                         *)
(* Each solver call is one record (its arguments, its locals, its program  *)
(* counter and its outcome); a solver has its own specification, in which  *)
(* the records of the other solvers stay idle.                             *)
(***************************************************************************)
EXTENDS Integers, Sequences, FiniteSets, TLC

VARIABLES bis, nw, sec, ns, idx, lin, rk, omp, mpi, tmr

vars == <<bis, nw, sec, ns, idx, lin, rk, omp, mpi, tmr>>

\* Largest grid point of a bisection bracket.
MaxX == 5
\* Largest tolerance, in grid steps.  A tolerance of 0 stands for every
\* tolerance below half a grid step (1e-17 on the bracket [1,2], or 0).
MaxTol == 2

\* Largest magnitude of a function or derivative value the caller's handles return.
MaxF == 2
\* Largest iteration budget explored for every function.
MaxImax == 3
\* Largest iteration budget of newton_system explored.
MaxIter == 2
\* Largest iteration budget of a call that is repeated from its own result.
MaxAgain == 1
\* def newton(f, df, x0, tol=1e-6, imax=100): the default budget.
DefaultImax == 100

Grid == 0..MaxX

\* The values a call of f can return.
FVals == (-MaxF)..MaxF

\* The values a call of df can return.
DfVals == {-2, -1, 0, 1, 2}

\* The signs a function value can have.
Signs == {-1, 0, 1}

Abs(a) == IF a < 0 THEN -a ELSE a

\* The function values bisection can meet, by sign and magnitude: 0, a tiny
\* value (1 and -1 stand for values like 1e-200) and an ordinary value (2 and
\* -2).  The caller's function has one sign function s and is tiny on the
\* points of t.
Magnitudes(s, t) == [x \in DOMAIN s |-> IF x \in t THEN s[x] ELSE 2 * s[x]]

\* Where the caller's function is tiny: nowhere, everywhere, or everywhere
\* but at the largest grid point.
TinySets == {{}, Grid \ {MaxX}, Grid}

\* f(a) * f(b) as the floating-point unit delivers it: the product of two
\* tiny values underflows to zero, every other product keeps its sign.
Times(a, b) == IF Abs(a) = 1 /\ Abs(b) = 1 THEN 0 ELSE a * b

\* Python's None, and a present value v, as sequences.
None == <<>>

Some(v) == <<v>>

\* n / d for d > 0, rounded to the nearest integer, ties to even.
RoundHalfEven(n, d) ==
    LET q == n \div d
        r == n % d
    IN  IF 2 * r < d THEN q
        ELSE IF 2 * r > d THEN q + 1
        ELSE IF q % 2 = 0 THEN q ELSE q + 1

\* a / b for b # 0, rounded to the nearest integer, ties to even.
Quot(a, b) == IF b < 0 THEN RoundHalfEven(-a, -b) ELSE RoundHalfEven(a, b)

\* A caller's function handle is a table filled in as the solver calls it: the
\* value at a point is chosen at the first call there and is the same at every
\* later call.
Extend(t, x, v) == IF x \in DOMAIN t THEN t ELSE t @@ (x :> v)

Consistent(t, x, v) == x \in DOMAIN t => t[x] = v

\* A call that was never made.
Idle == [pc |-> "idle"]

\* The calls other than the one a specification follows: they are never made,
\* and no step touches them.
OnlyBisection == nw = Idle /\ sec = Idle /\ ns = Idle /\ idx = Idle /\ lin = Idle /\ rk = Idle /\ omp = Idle /\ mpi = Idle /\ tmr = Idle

NotBisection == <<nw, sec, ns, idx, lin, rk, omp, mpi, tmr>>

OnlyNewton == bis = Idle /\ sec = Idle /\ ns = Idle /\ idx = Idle /\ lin = Idle /\ rk = Idle /\ omp = Idle /\ mpi = Idle /\ tmr = Idle

NotNewton == <<bis, sec, ns, idx, lin, rk, omp, mpi, tmr>>

OnlySecant == bis = Idle /\ nw = Idle /\ ns = Idle /\ idx = Idle /\ lin = Idle /\ rk = Idle /\ omp = Idle /\ mpi = Idle /\ tmr = Idle

NotSecant == <<bis, nw, ns, idx, lin, rk, omp, mpi, tmr>>

OnlyNewtonSystem == bis = Idle /\ nw = Idle /\ sec = Idle /\ idx = Idle /\ lin = Idle /\ rk = Idle /\ omp = Idle /\ mpi = Idle /\ tmr = Idle

NotNewtonSystem == <<bis, nw, sec, idx, lin, rk, omp, mpi, tmr>>

OnlyBisectionIndex == bis = Idle /\ nw = Idle /\ sec = Idle /\ ns = Idle /\ lin = Idle /\ rk = Idle /\ omp = Idle /\ mpi = Idle /\ tmr = Idle

NotBisectionIndex == <<bis, nw, sec, ns, lin, rk, omp, mpi, tmr>>

OnlyLinear == bis = Idle /\ nw = Idle /\ sec = Idle /\ ns = Idle /\ idx = Idle /\ rk = Idle /\ omp = Idle /\ mpi = Idle /\ tmr = Idle

NotLinear == <<bis, nw, sec, ns, idx, rk, omp, mpi, tmr>>

OnlyRK4 == bis = Idle /\ nw = Idle /\ sec = Idle /\ ns = Idle /\ idx = Idle /\ lin = Idle /\ omp = Idle /\ mpi = Idle /\ tmr = Idle

NotRK4 == <<bis, nw, sec, ns, idx, lin, omp, mpi, tmr>>

OnlyOmp == bis = Idle /\ nw = Idle /\ sec = Idle /\ ns = Idle /\ idx = Idle /\ lin = Idle /\ rk = Idle /\ mpi = Idle /\ tmr = Idle

NotOmp == <<bis, nw, sec, ns, idx, lin, rk, mpi, tmr>>

OnlyMpi == bis = Idle /\ nw = Idle /\ sec = Idle /\ ns = Idle /\ idx = Idle /\ lin = Idle /\ rk = Idle /\ omp = Idle /\ tmr = Idle

NotMpi == <<bis, nw, sec, ns, idx, lin, rk, omp, tmr>>

OnlyTimer == bis = Idle /\ nw = Idle /\ sec = Idle /\ ns = Idle /\ idx = Idle /\ lin = Idle /\ rk = Idle /\ omp = Idle /\ mpi = Idle

NotTimer == <<bis, nw, sec, ns, idx, lin, rk, omp, mpi>>

-----------------------------------------------------------------------------
(***************************************************************************)
(* bisection(f, l, h, tol)                                                 *)
(***************************************************************************)

ErrSigns == "ValueError: f(a) and f(b) must have opposite signs"

\* if f(l) * f(h) >= 0: raise
SignCheckFails_Strict(fl, fh) == Times(fl, fh) > 0

SignCheckFails(fl, fh) == Times(fl, fh) >= 0

\* while h - l > 2*tol
BracketTooWide(l, h, tol) == h - l > 2 * tol

\* (l + h) / 2
Mid_HalfWidth(l, h) == RoundHalfEven(h - l, 2)

Mid(l, h) == RoundHalfEven(l + h, 2)

\* elif f(l) * f(m) > 0: l = m   else: h = m
Narrow_Swapped(f, l, h, m) ==
    IF Times(f[l], f[m]) > 0 THEN <<l, m>> ELSE <<m, h>>

Narrow(f, l, h, m) ==
    IF Times(f[l], f[m]) > 0 THEN <<m, h>> ELSE <<l, m>>

\* The functions a caller can pass: any signs on the grid, tiny on one of the
\* sets of TinySets.
BisectionFunctions ==
    {Magnitudes(s, t) : s \in [Grid -> Signs], t \in TinySets}

\* The caller's arguments: any such function, low and high bounds l <= h, any
\* tolerance.  l0 and h0 remember the bounds as passed.
InitBisection ==
    /\ bis \in [f : BisectionFunctions, l : Grid, h : Grid, tol : 0..MaxTol,
                l0 : Grid, h0 : Grid, m : {None}, ret : {None},
                err : {"none"}, pc : {"check"}]
    /\ bis.l <= bis.h
    /\ bis.l0 = bis.l
    /\ bis.h0 = bis.h
    /\ OnlyBisection

\* The opening sign check.
BisectionCheck ==
    /\ bis.pc = "check"
    /\ IF SignCheckFails(bis.f[bis.l], bis.f[bis.h])
       THEN bis' = [bis EXCEPT !.pc = "raised", !.err = ErrSigns]
       ELSE bis' = [bis EXCEPT !.pc = "while"]
    /\ UNCHANGED NotBisection

\* The loop condition, and the return after the loop.
BisectionWhile ==
    /\ bis.pc = "while"
    /\ IF BracketTooWide(bis.l, bis.h, bis.tol)
       THEN bis' = [bis EXCEPT !.pc = "body"]
       ELSE bis' = [bis EXCEPT !.pc = "returned",
                               !.ret = Some(Mid(bis.l, bis.h))]
    /\ UNCHANGED NotBisection

\* One loop body: the midpoint, the exact-root return, the new bracket.
BisectionBody ==
    /\ bis.pc = "body"
    /\ LET m == Mid(bis.l, bis.h)
           lh == Narrow(bis.f, bis.l, bis.h, m)
       IN  IF bis.f[m] = 0
           THEN bis' = [bis EXCEPT !.m = Some(m), !.pc = "returned",
                                   !.ret = Some(m)]
           ELSE bis' = [bis EXCEPT !.m = Some(m), !.l = lh[1], !.h = lh[2],
                                   !.pc = "while"]
    /\ UNCHANGED NotBisection

NextBisection == BisectionCheck \/ BisectionWhile \/ BisectionBody

SpecBisection == InitBisection /\ [][NextBisection]_vars

\* A call runs to completion on its thread: a step that can be taken is taken.
SpecBisectionFair == SpecBisection /\ WF_vars(NextBisection)

-----------------------------------------------------------------------------
(***************************************************************************)
(* newton(f, df, x0, tol, imax)                                            *)
(***************************************************************************)

ErrZeroDerivative == "ValueError: Derivative is zero. No convergence."

ErrNoConvergence == "ValueError: Maximum iterations reached without convergence"

\* What Python raises for a float division by zero.
ErrZeroDivision == "ZeroDivisionError: float division by zero"

\* for _ in range(imax): i iterations were completed so far
BudgetLeft_OffByOne(i, imax) == i <= imax

BudgetLeft(i, imax) == i < imax

\* if df0 == 0
ZeroDerivative_WrongValue(f0, df0) == f0 = 0

ZeroDerivative(f0, df0) == df0 = 0

\* x = x0 - f0 / df0
NewtonStep_Halved(x0, f0, df0) == x0 - Quot(f0, 2 * df0)

NewtonStep(x0, f0, df0) == x0 - Quot(f0, df0)

\* if abs(x - x0) < tol
Converged_LessEq(x, x0, tol) == Abs(x - x0) <= tol

Converged(x, x0, tol) == Abs(x - x0) < tol

\* The values f(x0) and df(x0) may take.  Every budget up to MaxImax is
\* explored for every function; the default budget for the function with
\* f = 1 and df = 1 everywhere, which has no root.
NewtonValues(imax) ==
    IF imax > MaxImax THEN {<<1, 1>>} ELSE FVals \X DfVals

\* The caller's arguments; no point of f or df has been evaluated yet.
\* call counts the calls made with these arguments, first is what the first
\* of them returned.
NewtonCalls ==
    [f : {<<>>}, df : {<<>>}, x0 : {0, MaxX}, tol : 0..MaxTol,
     imax : (0..MaxImax) \cup {DefaultImax}, i : {0},
     f0 : {None}, df0 : {None}, x : {None}, ret : {None},
     err : {"none"}, pc : {"for"}, call : {1}, first : {None}]

InitNewton ==
    /\ nw \in NewtonCalls
    /\ OnlyNewton

\* The loop header, with the last iterate handed back when the budget is
\* used up.
NewtonFor_ReturnsLast ==
    /\ nw.pc = "for"
    /\ IF BudgetLeft(nw.i, nw.imax)
       THEN nw' = [nw EXCEPT !.pc = "body"]
       ELSE nw' = [nw EXCEPT !.pc = "returned", !.ret = Some(nw.x0)]
    /\ UNCHANGED NotNewton

\* The loop header, and the raise after the loop.
NewtonFor ==
    /\ nw.pc = "for"
    /\ IF BudgetLeft(nw.i, nw.imax)
       THEN nw' = [nw EXCEPT !.pc = "body"]
       ELSE nw' = [nw EXCEPT !.pc = "raised", !.err = ErrNoConvergence]
    /\ UNCHANGED NotNewton

\* The rest of an iteration once f0 and df0 are known.
NewtonIterate(c, f0, df0) ==
    IF ZeroDerivative(f0, df0)
    THEN [c EXCEPT !.pc = "raised", !.err = ErrZeroDerivative]
    ELSE IF df0 = 0
    THEN [c EXCEPT !.pc = "raised", !.err = ErrZeroDivision]
    ELSE LET x == NewtonStep(c.x0, f0, df0)
         IN  IF Converged(x, c.x0, c.tol)
             THEN [c EXCEPT !.x = Some(x), !.pc = "returned", !.ret = Some(x)]
             ELSE [c EXCEPT !.x = Some(x), !.x0 = x, !.i = @ + 1, !.pc = "for"]

\* One loop body: evaluate f and df at x0, then check, step and test.
NewtonBody ==
    /\ nw.pc = "body"
    /\ \E v \in NewtonValues(nw.imax) :
          /\ Consistent(nw.f, nw.x0, v[1])
          /\ Consistent(nw.df, nw.x0, v[2])
          /\ nw' = NewtonIterate([nw EXCEPT !.f = Extend(@, nw.x0, v[1]),
                                            !.df = Extend(@, nw.x0, v[2]),
                                            !.f0 = Some(v[1]),
                                            !.df0 = Some(v[2])],
                                 v[1], v[2])
    /\ UNCHANGED NotNewton

NextNewton == NewtonFor \/ NewtonBody

SpecNewton == InitNewton /\ [][NextNewton]_vars

\* The caller calls newton again with the value the first call returned as
\* the initial guess, and the same f, df, tol and imax.
NewtonAgain ==
    /\ nw.pc = "returned"
    /\ nw.call = 1
    /\ nw' = [nw EXCEPT !.call = 2, !.first = nw.ret, !.x0 = nw.ret[1],
                        !.i = 0, !.f0 = None, !.df0 = None, !.x = None,
                        !.ret = None, !.pc = "for"]
    /\ UNCHANGED NotNewton

InitNewtonAgain == InitNewton /\ nw.imax <= MaxAgain

NextNewtonAgain == NewtonFor \/ NewtonBody \/ NewtonAgain

SpecNewtonAgain == InitNewtonAgain /\ [][NextNewtonAgain]_vars

-----------------------------------------------------------------------------
(***************************************************************************)
(* secant(f, x0, x1, tol, imax)                                            *)
(***************************************************************************)

ErrSecantDivision == "ValueError: Division by zero in secant method."

\* if f0 == f1
SameValues_ChecksF1Zero(f0, f1) == f1 = 0

SameValues(f0, f1) == f0 = f1

\* x2 = x1 - f1 * (x1 - x0) / (f1 - f0)
SecantStep_UsesF0(x0, x1, f0, f1) == x1 - Quot(f0 * (x1 - x0), f1 - f0)

SecantStep(x0, x1, f0, f1) == x1 - Quot(f1 * (x1 - x0), f1 - f0)

\* if abs(x2 - x1) < tol
SecantConverged(x2, x1, tol) == Abs(x2 - x1) < tol

\* The caller's arguments: two starting points (equal ones included), any
\* tolerance, any budget up to MaxImax.
InitSecant ==
    /\ sec \in [f : {<<>>}, x0 : {0, 1}, x1 : {1, MaxX}, tol : 0..MaxTol,
                imax : 0..MaxImax, i : {0}, f0 : {None}, f1 : {None},
                x2 : {None}, ret : {None}, err : {"none"}, pc : {"for"}]
    /\ OnlySecant

\* The loop header, and the raise after the loop.
SecantFor ==
    /\ sec.pc = "for"
    /\ IF BudgetLeft(sec.i, sec.imax)
       THEN sec' = [sec EXCEPT !.pc = "body"]
       ELSE sec' = [sec EXCEPT !.pc = "raised", !.err = ErrNoConvergence]
    /\ UNCHANGED NotSecant

\* The rest of an iteration once f0 and f1 are known.
SecantIterate(c, f0, f1) ==
    IF SameValues(f0, f1)
    THEN [c EXCEPT !.pc = "raised", !.err = ErrSecantDivision]
    ELSE IF f1 - f0 = 0
    THEN [c EXCEPT !.pc = "raised", !.err = ErrZeroDivision]
    ELSE LET x2 == SecantStep(c.x0, c.x1, f0, f1)
         IN  IF SecantConverged(x2, c.x1, c.tol)
             THEN [c EXCEPT !.x2 = Some(x2), !.pc = "returned",
                            !.ret = Some(x2)]
             ELSE [c EXCEPT !.x2 = Some(x2), !.x0 = c.x1, !.x1 = x2,
                            !.i = @ + 1, !.pc = "for"]

\* One loop body: evaluate f at x0 and at x1, then check, step and test.
SecantBody ==
    /\ sec.pc = "body"
    /\ \E v0 \in FVals, v1 \in FVals :
          LET t == Extend(sec.f, sec.x0, v0)
          IN  /\ Consistent(sec.f, sec.x0, v0)
              /\ Consistent(t, sec.x1, v1)
              /\ sec' = SecantIterate([sec EXCEPT !.f = Extend(t, sec.x1, v1),
                                                  !.f0 = Some(v0),
                                                  !.f1 = Some(v1)],
                                      v0, v1)
    /\ UNCHANGED NotSecant

NextSecant == SecantFor \/ SecantBody

SpecSecant == InitSecant /\ [][NextSecant]_vars

-----------------------------------------------------------------------------
(***************************************************************************)
(* newton_system(F, J, X0, tol, max_iter), for two equations in two        *)
(* unknowns.  A vector is a pair, a matrix a pair of rows.                 *)
(***************************************************************************)

ErrSingular == "LinAlgError: Singular matrix"

Neg(V) == <<-V[1], -V[2]>>

Add(V, W) == <<V[1] + W[1], V[2] + W[2]>>

Det(M) == M[1][1] * M[2][2] - M[1][2] * M[2][1]

\* np.linalg.solve(M, b) for a non-singular M: the solution of M.y = b, each
\* component rounded to the grid.
Solve(M, b) ==
    <<Quot(M[2][2] * b[1] - M[1][2] * b[2], Det(M)),
      Quot(M[1][1] * b[2] - M[2][1] * b[1], Det(M))>>

\* dX = np.linalg.solve(J0, -F0)
Correction_NoMinus(J0, F0) == Solve(J0, F0)

Correction(J0, F0) == Solve(J0, Neg(F0))

\* if np.linalg.norm(dX) < tol, for tol >= 0
NormBelow(dX, tol) == dX[1] * dX[1] + dX[2] * dX[2] < tol * tol

\* The vectors F and the matrices J return at the points the solver visits.
FSamples == {<<0, 0>>, <<1, 0>>, <<-2, 1>>, <<2, 2>>, <<1, -3>>}

JSamples ==
    {<<<<1, 0>>, <<0, 1>>>>, <<<<2, 0>>, <<0, 1>>>>, <<<<1, 1>>, <<0, 1>>>>,
     <<<<2, 1>>, <<1, -1>>>>, <<<<1, 2>>, <<2, 4>>>>, <<<<0, 0>>, <<0, 0>>>>}

\* The caller's arguments; neither F nor J has been evaluated yet.
\* The name X0 starts bound to the array the caller passed; arg is what that
\* array holds.
InitNewtonSystem ==
    /\ ns \in [F : {<<>>}, J : {<<>>}, X0 : {<<0, 0>>, <<1, 1>>},
               arg : {<<0, 0>>, <<1, 1>>},
               tol : 0..MaxTol, max_iter : 0..MaxIter, i : {0},
               F0 : {None}, J0 : {None}, dX : {None}, X : {None},
               ret : {None}, err : {"none"}, pc : {"for"}]
    /\ ns.arg = ns.X0
    /\ OnlyNewtonSystem

\* The loop header, and the raise after the loop.
NewtonSystemFor ==
    /\ ns.pc = "for"
    /\ IF BudgetLeft(ns.i, ns.max_iter)
       THEN ns' = [ns EXCEPT !.pc = "body"]
       ELSE ns' = [ns EXCEPT !.pc = "raised", !.err = ErrNoConvergence]
    /\ UNCHANGED NotNewtonSystem

\* X0 = X with the caller's array overwritten, as X0[:] = X would do.
Rebind_InPlace(c, X) == [c EXCEPT !.X0 = X, !.arg = X]

\* X0 = X: the name X0 is bound to the new array X = X0 + dX; the array the
\* caller passed is not written.
Rebind(c, X) == [c EXCEPT !.X0 = X]

\* The rest of an iteration, with the linear-solve error swallowed: the
\* current iterate is handed back when J0 is singular.
NewtonSystemIterate_ReturnsOnSingular(c, F0, J0) ==
    IF Det(J0) = 0
    THEN [c EXCEPT !.pc = "returned", !.ret = Some(c.X0)]
    ELSE LET dX == Correction(J0, F0)
             X == Add(c.X0, dX)
         IN  IF NormBelow(dX, c.tol)
             THEN [c EXCEPT !.dX = Some(dX), !.X = Some(X),
                            !.pc = "returned", !.ret = Some(X)]
             ELSE Rebind([c EXCEPT !.dX = Some(dX), !.X = Some(X),
                                   !.i = @ + 1, !.pc = "for"], X)

\* The rest of an iteration once F0 and J0 are known.
NewtonSystemIterate(c, F0, J0) ==
    IF Det(J0) = 0
    THEN [c EXCEPT !.pc = "raised", !.err = ErrSingular]
    ELSE LET dX == Correction(J0, F0)
             X == Add(c.X0, dX)
         IN  IF NormBelow(dX, c.tol)
             THEN [c EXCEPT !.dX = Some(dX), !.X = Some(X),
                            !.pc = "returned", !.ret = Some(X)]
             ELSE Rebind([c EXCEPT !.dX = Some(dX), !.X = Some(X),
                                   !.i = @ + 1, !.pc = "for"], X)

\* One loop body: evaluate F and J at X0, then solve, update and test.
NewtonSystemBody ==
    /\ ns.pc = "body"
    /\ \E v \in FSamples, m \in JSamples :
          /\ Consistent(ns.F, ns.X0, v)
          /\ Consistent(ns.J, ns.X0, m)
          /\ ns' = NewtonSystemIterate([ns EXCEPT !.F = Extend(@, ns.X0, v),
                                                  !.J = Extend(@, ns.X0, m),
                                                  !.F0 = Some(v),
                                                  !.J0 = Some(m)],
                                       v, m)
    /\ UNCHANGED NotNewtonSystem

NextNewtonSystem == NewtonSystemFor \/ NewtonSystemBody

SpecNewtonSystem == InitNewtonSystem /\ [][NextNewtonSystem]_vars

\* ---------------------------------------------------------------------------
\* Any one call of any of the four solvers.
\* ---------------------------------------------------------------------------

InitSolvers == InitBisection \/ InitNewton \/ InitSecant \/ InitNewtonSystem

NextSolvers == NextBisection \/ NextNewton \/ NextSecant \/ NextNewtonSystem

SpecSolvers == InitSolvers /\ [][NextSolvers]_vars

\* The interpreter keeps running a call that can take a step.
SpecSolversFair == SpecSolvers /\ WF_vars(NextSolvers)

-----------------------------------------------------------------------------
(***************************************************************************)
(* bisection_index(xs, target)                                             *)
(***************************************************************************)

\* Longest list, and largest value of an element or of the target.
MaxLen == 4

MaxVal == 3

\* xs[i]: Python counts the positions of a list from 0.
At(xs, i) == xs[i + 1]

Sorted(xs) == \A i \in 1..(Len(xs) - 1) : xs[i] <= xs[i + 1]

\* The sorted lists, the empty one included.
SortedLists ==
    {xs \in UNION {[1..n -> 0..MaxVal] : n \in 0..MaxLen} : Sorted(xs)}

\* while h - l > 1
IndexGap_Positive(l, h) == h - l > 0

IndexGap(l, h) == h - l > 1

\* m = (h + l) // 2
MidIndex_Ceil(l, h) == (h + l + 1) \div 2

MidIndex(l, h) == (h + l) \div 2

\* if target >= xs[m]
KeepHigh_Strict(target, xm) == target > xm

KeepHigh(target, xm) == target >= xm

\* l, h = 0, len(xs) - 1
InitBisectionIndex ==
    /\ \E xs \in SortedLists, target \in 0..MaxVal :
          idx = [xs |-> xs, target |-> target, l |-> 0, h |-> Len(xs) - 1,
                 m |-> None, ret |-> None, pc |-> "while"]
    /\ OnlyBisectionIndex

\* The loop condition, and the return after the loop.
BisectionIndexWhile ==
    /\ idx.pc = "while"
    /\ IF IndexGap(idx.l, idx.h)
       THEN idx' = [idx EXCEPT !.pc = "body"]
       ELSE idx' = [idx EXCEPT !.pc = "returned", !.ret = Some(idx.l)]
    /\ UNCHANGED NotBisectionIndex

\* One loop body: the middle index replaces the low or the high one.
BisectionIndexBody ==
    /\ idx.pc = "body"
    /\ LET m == MidIndex(idx.l, idx.h)
       IN  IF KeepHigh(idx.target, At(idx.xs, m))
           THEN idx' = [idx EXCEPT !.m = Some(m), !.l = m, !.pc = "while"]
           ELSE idx' = [idx EXCEPT !.m = Some(m), !.h = m, !.pc = "while"]
    /\ UNCHANGED NotBisectionIndex

NextBisectionIndex == BisectionIndexWhile \/ BisectionIndexBody

SpecBisectionIndex == InitBisectionIndex /\ [][NextBisectionIndex]_vars

-----------------------------------------------------------------------------
(***************************************************************************)
(* jacobi_iteration(A, b, max_iter, tol) and                               *)
(* gauss_seidel_iteration(A, b, max_iter, tol), for two unknowns           *)
(***************************************************************************)

\* n = A.shape[0]
Dim == 2

\* Largest magnitude of a component of b, and largest number of sweeps
\* allowed.
MaxB == 2

MaxSweeps == 3

MsgConverged == "converged"

MsgNotConverged == "did not fully converge within max_iter"

\* The entries on and off the diagonal of A.
DiagVals == {1, 3}

OffVals == {-1, 0, 2}

\* The matrices passed: non-zero diagonal; strictly diagonally dominant ones,
\* ones on which the iterations diverge and singular ones are among them.
Matrices ==
    {<<<<d1, o1>>, <<o2, d2>>>> :
        d1 \in DiagVals, d2 \in DiagVals, o1 \in OffVals, o2 \in OffVals}

\* x = np.zeros(n)
Zeros == [i \in 1..Dim |-> 0]

\* sum of row[j] * y[j] for j from lo to hi
RECURSIVE SumRange(_, _, _, _)
SumRange(row, y, lo, hi) ==
    IF lo > hi THEN 0 ELSE row[lo] * y[lo] + SumRange(row, y, lo + 1, hi)

\* Jacobi, row i: s over j != i from x_old; x[i] = (b[i] - s) / A[i, i]
JacobiRow_PlusSum(A, b, x_old, i) ==
    Quot(b[i] + SumRange(A[i], x_old, 1, i - 1)
              + SumRange(A[i], x_old, i + 1, Dim), A[i][i])

JacobiRow(A, b, x_old, i) ==
    Quot(b[i] - (SumRange(A[i], x_old, 1, i - 1)
                 + SumRange(A[i], x_old, i + 1, Dim)), A[i][i])

\* Gauss-Seidel, row i: s1 over j < i from x, s2 over j > i from x_old;
\* x[i] = (b[i] - s1 - s2) / A[i, i]
GaussSeidelRow_AllOld(A, b, x, x_old, i) ==
    Quot(b[i] - SumRange(A[i], x_old, 1, i - 1)
              - SumRange(A[i], x_old, i + 1, Dim), A[i][i])

GaussSeidelRow(A, b, x, x_old, i) ==
    Quot(b[i] - SumRange(A[i], x, 1, i - 1)
              - SumRange(A[i], x_old, i + 1, Dim), A[i][i])

\* for i in range(n), from row i on, writing into x
RECURSIVE JacobiRows(_, _, _, _, _)
JacobiRows(A, b, x, x_old, i) ==
    IF i > Dim THEN x
    ELSE JacobiRows(A, b, [x EXCEPT ![i] = JacobiRow(A, b, x_old, i)],
                    x_old, i + 1)

RECURSIVE GaussSeidelRows(_, _, _, _, _)
GaussSeidelRows(A, b, x, x_old, i) ==
    IF i > Dim THEN x
    ELSE GaussSeidelRows(A, b,
                         [x EXCEPT ![i] = GaussSeidelRow(A, b, x, x_old, i)],
                         x_old, i + 1)

\* np.linalg.norm(x - x_old, ord=np.inf)
RECURSIVE NormInf(_, _)
NormInf(y, n) ==
    IF n = 0 THEN 0
    ELSE LET r == NormInf(y, n - 1)
         IN  IF Abs(y[n]) > r THEN Abs(y[n]) ELSE r

StepNorm(x, x_old) == NormInf([i \in 1..Dim |-> x[i] - x_old[i]], Dim)

\* if np.linalg.norm(x - x_old, ord=np.inf) < tol
StepBelow_LessEq(x, x_old, tol) == StepNorm(x, x_old) <= tol

StepBelow(x, x_old, tol) == StepNorm(x, x_old) < tol

\* The caller's arguments; x is the zero vector.
InitLinear ==
    /\ lin \in [alg : {"jacobi", "gauss_seidel"}, A : Matrices,
                b : [1..Dim -> (-MaxB)..MaxB], max_iter : 0..MaxSweeps,
                tol : 0..MaxTol, k : {0}, x : {Zeros}, x_old : {Zeros},
                ret : {None}, msg : {"none"}, pc : {"for"}]
    /\ OnlyLinear

\* The loop header, and the return after the loop.
LinearFor ==
    /\ lin.pc = "for"
    /\ IF BudgetLeft(lin.k, lin.max_iter)
       THEN lin' = [lin EXCEPT !.pc = "body"]
       ELSE lin' = [lin EXCEPT !.pc = "returned", !.ret = Some(lin.x),
                               !.msg = MsgNotConverged]
    /\ UNCHANGED NotLinear

\* The end of a sweep that made x out of x_old: the convergence check.
AfterSweep(c, x, x_old) ==
    IF StepBelow(x, x_old, c.tol)
    THEN [c EXCEPT !.x = x, !.x_old = x_old, !.pc = "returned",
                   !.ret = Some(x), !.msg = MsgConverged]
    ELSE [c EXCEPT !.x = x, !.x_old = x_old, !.k = @ + 1, !.pc = "for"]

\* One sweep of jacobi_iteration.
JacobiSweep ==
    /\ lin.pc = "body"
    /\ lin.alg = "jacobi"
    /\ lin' = AfterSweep(lin, JacobiRows(lin.A, lin.b, lin.x, lin.x, 1), lin.x)
    /\ UNCHANGED NotLinear

\* One sweep of gauss_seidel_iteration.
GaussSeidelSweep ==
    /\ lin.pc = "body"
    /\ lin.alg = "gauss_seidel"
    /\ lin' = AfterSweep(lin, GaussSeidelRows(lin.A, lin.b, lin.x, lin.x, 1),
                         lin.x)
    /\ UNCHANGED NotLinear

NextLinear == LinearFor \/ JacobiSweep \/ GaussSeidelSweep

SpecLinear == InitLinear /\ [][NextLinear]_vars

-----------------------------------------------------------------------------
(***************************************************************************)
(* The two worked examples of the notebook, in floating point              *)
(***************************************************************************)

\* Python floats in the two worked examples: binary floating point with a
\* mantissa of MantBits bits, every operation rounded to nearest, ties to
\* even, as IEEE 754 prescribes (the interpreter's floats have 53 bits; the
\* exponent range is not limited here).  A float is <<m, e>>, standing for
\* m * 2^e, with m = 0 or 2^(MantBits-1) <= |m| < 2^MantBits.
MantBits == 24

RECURSIVE Pow2(_)
Pow2(n) == IF n = 0 THEN 1 ELSE 2 * Pow2(n - 1)

MantMin == Pow2(MantBits - 1)

MantMax == Pow2(MantBits)

FZero == <<0, 0>>

Sgn(n) == IF n < 0 THEN -1 ELSE IF n > 0 THEN 1 ELSE 0

\* The number of bits of n >= 0.
RECURSIVE BitLen(_)
BitLen(n) == IF n = 0 THEN 0 ELSE 1 + BitLen(n \div 2)

\* n >= 0 with its last bit set when bits were dropped below it.
Sticky(n, dropped) == IF dropped /\ n % 2 = 0 THEN n + 1 ELSE n

\* The float nearest to n * 2^e.
FRound(n, e) ==
    IF n = 0 THEN FZero
    ELSE LET k == BitLen(Abs(n)) - MantBits
         IN  IF k <= 0 THEN <<n * Pow2(-k), e + k>>
             ELSE LET m == RoundHalfEven(Abs(n), Pow2(k))
                  IN  IF m = MantMax THEN <<Sgn(n) * MantMin, e + k + 1>>
                      ELSE <<Sgn(n) * m, e + k>>

\* An int used as a float.
FromInt(n) == FRound(n, 0)

FNeg(x) == <<-x[1], x[2]>>

FAbs(x) == <<Abs(x[1]), x[2]>>

\* x + y
FAdd(x, y) ==
    IF x[1] = 0 THEN y
    ELSE IF y[1] = 0 THEN x
    ELSE LET big == IF x[2] >= y[2] THEN x ELSE y
             small == IF x[2] >= y[2] THEN y ELSE x
             d == big[2] - small[2]
             t == Abs(small[1]) * 8
         IN  IF d > MantBits + 1 THEN big
             ELSE FRound(big[1] * 8 + Sgn(small[1])
                             * Sticky(t \div Pow2(d), t % Pow2(d) # 0),
                         big[2] - 3)

\* x - y
FSub(x, y) == FAdd(x, FNeg(y))

\* x * y
FMul(x, y) ==
    IF x[1] = 0 \/ y[1] = 0 THEN FZero
    ELSE LET B == Pow2(MantBits \div 2)
             G == Pow2(MantBits - 3)
             a1 == Abs(x[1]) \div B
             a0 == Abs(x[1]) % B
             b1 == Abs(y[1]) \div B
             b0 == Abs(y[1]) % B
             mid == a1 * b0 + a0 * b1
             low == (mid % B) * B + a0 * b0
             H == a1 * b1 + mid \div B + low \div MantMax
             L == low % MantMax
         IN  FRound(Sgn(x[1]) * Sgn(y[1]) * Sticky(H * 8 + L \div G, L % G # 0),
                    x[2] + y[2] + MantBits - 3)

\* The first n bits of r / b, and what is left of r, by long division.
RECURSIVE DivSteps(_, _, _, _)
DivSteps(q, r, b, n) ==
    IF n = 0 THEN <<q, r>>
    ELSE IF r >= b THEN DivSteps(2 * q + 1, 2 * (r - b), b, n - 1)
    ELSE DivSteps(2 * q, 2 * r, b, n - 1)

\* x / y for y # 0
FDiv(x, y) ==
    IF x[1] = 0 THEN FZero
    ELSE LET qr == DivSteps(0, Abs(x[1]), Abs(y[1]), MantBits + 3)
         IN  FRound(Sgn(x[1]) * Sgn(y[1]) * Sticky(qr[1], qr[2] # 0),
                    x[2] - y[2] - MantBits - 2)

\* x < y
FLess(x, y) == FSub(x, y)[1] < 0

\* tol=1e-6, the default of bisection and of newton
DefaultTol == FDiv(FromInt(1), FromInt(1000000))

\* Largest low bound and largest high bound of the brackets tried.
MaxLow == 1

MaxHigh == 3

\* def f(x): return x**3 - x - 2
CubicF_PlusX(x) == FSub(FAdd(FMul(FMul(x, x), x), x), FromInt(2))

CubicF(x) == FSub(FSub(FMul(FMul(x, x), x), x), FromInt(2))

\* bisection(f, l, h) with the default tolerance, on the brackets with
\* whole-number ends from [0, 2] on; root = bisection(f, 1, 2) is one of them.
InitBisectionExample ==
    /\ bis \in [l : {FromInt(n) : n \in 0..MaxLow},
                h : {FromInt(n) : n \in 2..MaxHigh},
                l0 : {FromInt(n) : n \in 0..MaxLow},
                h0 : {FromInt(n) : n \in 2..MaxHigh},
                tol : {DefaultTol}, m : {None}, ret : {None},
                err : {"none"}, pc : {"check"}]
    /\ bis.l0 = bis.l
    /\ bis.h0 = bis.h
    /\ OnlyBisection

\* if f(l) * f(h) >= 0: raise
BisectionExampleCheck ==
    /\ bis.pc = "check"
    /\ IF FMul(CubicF(bis.l), CubicF(bis.h))[1] >= 0
       THEN bis' = [bis EXCEPT !.pc = "raised", !.err = ErrSigns]
       ELSE bis' = [bis EXCEPT !.pc = "while"]
    /\ UNCHANGED NotBisection

\* while h - l > 2*tol, and return (l + h) / 2 after the loop
BisectionExampleWhile ==
    /\ bis.pc = "while"
    /\ IF FLess(FMul(FromInt(2), bis.tol), FSub(bis.h, bis.l))
       THEN bis' = [bis EXCEPT !.pc = "body"]
       ELSE bis' = [bis EXCEPT !.pc = "returned",
                               !.ret = Some(FDiv(FAdd(bis.l, bis.h),
                                                 FromInt(2)))]
    /\ UNCHANGED NotBisection

\* One loop body: the midpoint, the exact-root return, the new bracket.
BisectionExampleBody ==
    /\ bis.pc = "body"
    /\ LET m == FDiv(FAdd(bis.l, bis.h), FromInt(2))
       IN  IF CubicF(m)[1] = 0
           THEN bis' = [bis EXCEPT !.m = Some(m), !.pc = "returned",
                                   !.ret = Some(m)]
           ELSE IF FMul(CubicF(bis.l), CubicF(m))[1] > 0
           THEN bis' = [bis EXCEPT !.m = Some(m), !.l = m, !.pc = "while"]
           ELSE bis' = [bis EXCEPT !.m = Some(m), !.h = m, !.pc = "while"]
    /\ UNCHANGED NotBisection

NextBisectionExample ==
    BisectionExampleCheck \/ BisectionExampleWhile \/ BisectionExampleBody

SpecBisectionExample == InitBisectionExample /\ [][NextBisectionExample]_vars

\* Largest initial guess tried, in halves.
MaxGuess == 3

\* f = lambda x: x**3
CubeF(x) == FMul(FMul(x, x), x)

\* df = lambda x: 3*x**2
CubeDf_Linear(x) == FMul(FromInt(3), x)

CubeDf(x) == FMul(FromInt(3), FMul(x, x))

\* newton(f, df, initial_guess) with the default tolerance and budget, from
\* the guesses 0.5, 1.0, ...; initial_guess = 1.5 is one of them.
InitNewtonExample ==
    /\ nw \in [x0 : {FDiv(FromInt(g), FromInt(2)) : g \in 1..MaxGuess},
               guess : {FDiv(FromInt(g), FromInt(2)) : g \in 1..MaxGuess},
               tol : {DefaultTol}, imax : {DefaultImax}, i : {0},
               f0 : {None}, df0 : {None}, x : {None}, ret : {None},
               err : {"none"}, pc : {"for"}]
    /\ nw.guess = nw.x0
    /\ OnlyNewton

\* One loop body: evaluate f and df at x0, then check, step and test.
NewtonExampleBody ==
    /\ nw.pc = "body"
    /\ LET f0 == CubeF(nw.x0)
           df0 == CubeDf(nw.x0)
           x == FSub(nw.x0, FDiv(f0, df0))
           c == [nw EXCEPT !.f0 = Some(f0), !.df0 = Some(df0)]
       IN  IF df0[1] = 0
           THEN nw' = [c EXCEPT !.pc = "raised", !.err = ErrZeroDerivative]
           ELSE IF FLess(FAbs(FSub(x, nw.x0)), nw.tol)
           THEN nw' = [c EXCEPT !.x = Some(x), !.pc = "returned",
                                !.ret = Some(x)]
           ELSE nw' = [c EXCEPT !.x = Some(x), !.x0 = x, !.i = @ + 1,
                                !.pc = "for"]
    /\ UNCHANGED NotNewton

NextNewtonExample == NewtonFor \/ NewtonExampleBody

SpecNewtonExample == InitNewtonExample /\ [][NextNewtonExample]_vars

-----------------------------------------------------------------------------
(***************************************************************************)
(* Claims about bisection.                                                 *)
(***************************************************************************)

BisectionDone == bis.pc \in {"returned", "raised"}

\* A root of f within distance tol of r, among the points lo..hi: a grid point
\* where f is zero, or two neighbouring grid points between which f changes
\* sign (the root lies somewhere between them, so both must be within tol).
RootWithin(f, lo, hi, r, tol) ==
    \E x \in lo..hi :
        \/ f[x] = 0 /\ Abs(r - x) <= tol
        \/ /\ x + 1 <= hi
           /\ f[x] * f[x + 1] < 0
           /\ r - tol <= x
           /\ x + 1 <= r + tol

\* C1: the value bisection returns is within tol of a root of f in the
\* bracket: a point where f is zero or changes sign.
C1_ReturnWithinTolOfRoot ==
    bis.pc = "returned" =>
        RootWithin(bis.f, bis.l0, bis.h0, bis.ret[1], bis.tol)

C4_BisectionTerminates == <>BisectionDone

-----------------------------------------------------------------------------
(***************************************************************************)
(* Claims about newton.                                                    *)
(***************************************************************************)

NewtonDone == nw.pc \in {"returned", "raised"}

\* C5: newton returns x only when x = x0 - f(x0)/df(x0) for the current
\* iterate x0 and |x - x0| < tol.
C5_ReturnOnlyWhenStepBelowTol ==
    (nw.pc # "idle" /\ nw.ret # None) =>
        /\ nw.pc = "returned"
        /\ nw.x0 \in DOMAIN nw.f
        /\ nw.df[nw.x0] # 0
        /\ nw.ret[1] = nw.x0 - Quot(nw.f[nw.x0], nw.df[nw.x0])
        /\ Abs(nw.ret[1] - nw.x0) < nw.tol

\* A return in a later iteration, after a step that really moved the iterate.
C5_Witness ==
    /\ nw.pc = "returned"
    /\ nw.i > 0
    /\ nw.ret[1] # nw.x0

\* C6: whenever df is zero at the current iterate, newton raises the
\* zero-derivative error and returns nothing; no division by zero happens.
C6_ZeroDerivativeRaises ==
    nw.pc # "idle" =>
        /\ nw.df0 = Some(0) =>
              /\ nw.pc = "raised"
              /\ nw.err = ErrZeroDerivative
              /\ nw.ret = None
        /\ nw.err = ErrZeroDerivative => nw.df0 = Some(0)
        /\ nw.err # ErrZeroDivision

\* The zero derivative met at a later iterate, where f is not zero.
C6_Witness ==
    /\ nw.pc = "raised"
    /\ nw.err = ErrZeroDerivative
    /\ nw.i > 0
    /\ nw.f0 # Some(0)

\* C7: newton starts at most imax iterations; when it ends, it has raised the
\* no-convergence error exactly when imax iterations were completed (none
\* returned, none met a zero derivative), and then nothing is returned.
C7_BudgetAndNoConvergence ==
    nw.pc # "idle" =>
        /\ nw.i <= nw.imax
        /\ nw.pc = "body" => nw.i < nw.imax
        /\ NewtonDone => ((nw.err = ErrNoConvergence) <=> (nw.i = nw.imax))
        /\ nw.err = ErrNoConvergence => nw.ret = None /\ nw.pc = "raised"
        /\ nw.ret # None => nw.i < nw.imax

\* The default budget of 100 iterations used up.
C7_Witness ==
    /\ nw.pc = "raised"
    /\ nw.err = ErrNoConvergence
    /\ nw.imax = DefaultImax
    /\ nw.i = DefaultImax

\* The second call has gone through the body of its first iteration.
SecondCallStepped == nw.call = 2 /\ nw.f0 # None

\* The Newton step at the value the first call returned is below tol.
SmallStepAtFirst ==
    LET x == nw.first[1]
    IN  /\ nw.df[x] # 0
        /\ Abs(Quot(nw.f[x], nw.df[x])) < nw.tol

-----------------------------------------------------------------------------
(***************************************************************************)
(* Claims about secant.                                                    *)
(***************************************************************************)

\* C8: whenever the function values at the two current points coincide,
\* secant raises its division-by-zero error and returns nothing; the quotient
\* is not computed, so Python's own ZeroDivisionError never occurs.
C8_EqualValuesRaise ==
    sec.pc # "idle" =>
        /\ (sec.f0 # None /\ sec.f0 = sec.f1) =>
              /\ sec.pc = "raised"
              /\ sec.err = ErrSecantDivision
              /\ sec.ret = None
              /\ sec.x2 \in {None, Some(sec.x1)}
        /\ sec.err = ErrSecantDivision => (sec.f0 # None /\ sec.f0 = sec.f1)
        /\ sec.err # ErrZeroDivision

\* Equal values met at two different points, in a later iteration.
C8_Witness ==
    /\ sec.pc = "raised"
    /\ sec.err = ErrSecantDivision
    /\ sec.i > 0
    /\ sec.x0 # sec.x1
    /\ sec.f1 # Some(0)

\* C9: an iteration of secant evaluates f at the two current points and, when
\* the values differ, computes x2 = x1 - f1*(x1 - x0)/(f1 - f0); it returns x2
\* when |x2 - x1| < tol and only then, otherwise it goes on with the pair
\* (x1, x2); the no-convergence error is raised once imax iterations are done.
C9_SecantIteration ==
    [][/\ sec.pc = "for" =>
             IF sec.i < sec.imax
             THEN sec' = [sec EXCEPT !.pc = "body"]
             ELSE sec' = [sec EXCEPT !.pc = "raised",
                                     !.err = ErrNoConvergence]
       /\ sec.pc = "body" =>
             LET f0 == sec'.f[sec.x0]
                 f1 == sec'.f[sec.x1]
                 x2 == sec.x1 - Quot(f1 * (sec.x1 - sec.x0), f1 - f0)
             IN  /\ sec'.f0 = Some(f0)
                 /\ sec'.f1 = Some(f1)
                 /\ f0 # f1 =>
                       /\ sec'.x2 = Some(x2)
                       /\ IF Abs(x2 - sec.x1) < sec.tol
                          THEN /\ sec'.pc = "returned"
                               /\ sec'.ret = Some(x2)
                          ELSE /\ sec'.pc = "for"
                               /\ sec'.ret = None
                               /\ sec'.x0 = sec.x1
                               /\ sec'.x1 = x2
                               /\ sec'.i = sec.i + 1]_vars

\* A return in a later iteration, after the pair of points was shifted.
C9_Witness ==
    /\ sec.pc = "returned"
    /\ sec.i > 0
    /\ sec.ret # Some(sec.x1)
    /\ sec.x0 # sec.x1

-----------------------------------------------------------------------------
(***************************************************************************)
(* Claims about newton_system.                                             *)
(***************************************************************************)

\* Row r of M.dX + V, doubled, is at most the sum of the magnitudes of the
\* row: dX is within half a grid step, in each component, of the exact
\* solution of M.y = -V.
SolvesToGrid(M, dX, V) ==
    \A r \in 1..2 :
        2 * Abs(M[r][1] * dX[1] + M[r][2] * dX[2] + V[r])
            <= Abs(M[r][1]) + Abs(M[r][2])

\* C10: an iteration of newton_system solves J(X0).dX = -F(X0) at the current
\* iterate, forms X = X0 + dX, returns X as soon as the norm of dX is below
\* tol, and otherwise makes X the current iterate of the next iteration.
C10_SystemIteration ==
    [][ns.pc = "body" =>
          LET F0 == ns'.F[ns.X0]
              J0 == ns'.J[ns.X0]
          IN  /\ ns'.F0 = Some(F0)
              /\ ns'.J0 = Some(J0)
              /\ Det(J0) # 0 =>
                    LET dX == ns'.dX[1]
                        X == <<ns.X0[1] + dX[1], ns.X0[2] + dX[2]>>
                    IN  /\ SolvesToGrid(J0, dX, F0)
                        /\ ns'.X = Some(X)
                        /\ IF dX[1] * dX[1] + dX[2] * dX[2] < ns.tol * ns.tol
                           THEN /\ ns'.pc = "returned"
                                /\ ns'.ret = Some(X)
                           ELSE /\ ns'.pc = "for"
                                /\ ns'.ret = None
                                /\ ns'.X0 = X
                                /\ ns'.i = ns.i + 1]_vars

\* A return in the second iteration, after a correction that moved both
\* components and had to be rounded to the grid.
C10_Witness ==
    /\ ns.pc = "returned"
    /\ ns.i > 0
    /\ ns.dX[1][1] # 0
    /\ ns.dX[1][2] # 0
    /\ LET M == ns.J0[1]
       IN  M[1][1] * ns.dX[1][1] + M[1][2] * ns.dX[1][2] + ns.F0[1][1] # 0

NewtonSystemDone == ns.pc \in {"returned", "raised"}

\* M has no inverse.
SingularMatrix(M) == M[1][1] * M[2][2] = M[1][2] * M[2][1]

\* C11: newton_system fails in two ways only: with the no-convergence error
\* once max_iter iterations are completed, and with the linear-solve error
\* when the Jacobian at the current iterate is singular; a call that failed
\* returns no vector, and a call that did not fail this way raised nothing.
C11_TwoFailuresOnly ==
    ns.pc # "idle" =>
        /\ ns.err \in {"none", ErrNoConvergence, ErrSingular}
        /\ (ns.pc = "raised") <=> (ns.err # "none")
        /\ ns.pc = "raised" => ns.ret = None
        /\ NewtonSystemDone =>
              ((ns.err = ErrNoConvergence) <=> (ns.i = ns.max_iter))
        /\ (ns.J0 # None /\ SingularMatrix(ns.J0[1])) <=> (ns.err = ErrSingular)

\* A singular Jacobian (not the zero matrix) met at a later iterate.
C11_Witness ==
    /\ ns.pc = "raised"
    /\ ns.err = ErrSingular
    /\ ns.i > 0
    /\ ns.J0[1][1][1] # 0

\* ---------------------------------------------------------------------------
\* Claims about the four solvers together
\* ---------------------------------------------------------------------------

Terminal(c) == c.pc \in {"returned", "raised"}

\* The state of a call in the four-state machine: a returned value is
\* "converged", the no-convergence error is "exhausted", every other error
\* is "invalid-input", and a call still running is "iterating".
SolverState(c) ==
    IF c.pc = "returned" THEN "converged"
    ELSE IF c.pc = "raised"
         THEN IF c.err = ErrNoConvergence THEN "exhausted" ELSE "invalid-input"
         ELSE "iterating"

\* C12: a call of any of the four solvers starts in "iterating", no step
\* leaves a terminal state (converged with a value, exhausted or
\* invalid-input with an error), and every call ends in a terminal state.
C12_SolverStateMachine ==
    /\ \A c \in {bis, nw, sec, ns} :
           c.pc # "idle" => SolverState(c) = "iterating"
    /\ [][/\ Terminal(bis) => bis' = bis
          /\ Terminal(nw) => nw' = nw
          /\ Terminal(sec) => sec' = sec
          /\ Terminal(ns) => ns' = ns]_vars
    /\ <>(\E c \in {bis, nw, sec, ns} : Terminal(c))

\* A call that has raised takes no further step, and hands back nothing.
RaiseIsFinal(c, d) ==
    /\ c.pc = "raised" => d = c
    /\ d.pc = "raised" => d.ret = None

\* C13: an error is raised at the step that detects it: the sign check of
\* bisection before any midpoint is taken, a zero derivative, equal secant
\* values or a singular Jacobian in the iteration that evaluated them, a
\* used-up budget at the loop header; the raising step computes no new
\* iterate and evaluates nothing more, no step follows it (no retry), and no
\* value is returned.
C13_RaisedWhereDetected ==
    [][/\ RaiseIsFinal(bis, bis') /\ RaiseIsFinal(nw, nw')
       /\ RaiseIsFinal(sec, sec') /\ RaiseIsFinal(ns, ns')
       /\ (bis.pc = "check" /\ SignCheckFails(bis.f[bis.l], bis.f[bis.h]))
             => (bis'.pc = "raised" /\ bis'.err = ErrSigns /\ bis'.m = None)
       /\ (bis.pc # "raised" /\ bis'.pc = "raised") => bis.pc = "check"
       /\ (nw.pc = "for" /\ nw.i >= nw.imax)
             => (nw'.pc = "raised" /\ nw'.err = ErrNoConvergence
                 /\ nw'.f = nw.f /\ nw'.df = nw.df)
       /\ (nw.pc = "body" /\ nw'.df0 = Some(0))
             => (nw'.pc = "raised" /\ nw'.err = ErrZeroDerivative
                 /\ nw'.x = nw.x /\ nw'.x0 = nw.x0 /\ nw'.i = nw.i)
       /\ (sec.pc = "for" /\ sec.i >= sec.imax)
             => (sec'.pc = "raised" /\ sec'.err = ErrNoConvergence
                 /\ sec'.f = sec.f)
       /\ (sec.pc = "body" /\ sec'.f0 = sec'.f1)
             => (sec'.pc = "raised" /\ sec'.err = ErrSecantDivision
                 /\ sec'.x2 = sec.x2 /\ sec'.x1 = sec.x1 /\ sec'.i = sec.i)
       /\ (ns.pc = "for" /\ ns.i >= ns.max_iter)
             => (ns'.pc = "raised" /\ ns'.err = ErrNoConvergence
                 /\ ns'.F = ns.F /\ ns'.J = ns.J)
       /\ (ns.pc = "body" /\ SingularMatrix(ns'.J0[1]))
             => (ns'.pc = "raised" /\ ns'.err = ErrSingular
                 /\ ns'.X = ns.X /\ ns'.X0 = ns.X0 /\ ns'.i = ns.i)
      ]_vars

\* newton ran out of budget holding an iterate it had computed, and raised
\* without returning it.
C13_Witness ==
    /\ nw.pc = "raised"
    /\ nw.err = ErrNoConvergence
    /\ nw.x # None
    /\ nw.x0 # 0 /\ nw.x0 # MaxX
    /\ nw.ret = None

-----------------------------------------------------------------------------
(***************************************************************************)
(* Claims about the worked examples.                                       *)
(***************************************************************************)

\* |x - n/d| < k/1000000 for floats x
FNear(x, n, d, k) ==
    FLess(FAbs(FSub(x, FDiv(FromInt(n), FromInt(d)))),
          FDiv(FromInt(k), FromInt(1000000)))

\* C15: bisection on f(x) = x**3 - x - 2 with the bracket [1, 2] and the
\* default tolerance raises nothing, and what it returns is 1.52138 to five
\* decimals with |f(root)| < 1e-5.
C15_CubicRootOnOneTwo ==
    (bis.pc # "idle" /\ bis.l0 = FromInt(1) /\ bis.h0 = FromInt(2)) =>
        /\ bis.pc # "raised"
        /\ bis.pc = "returned" =>
              /\ FNear(bis.ret[1], 152138, 100000, 5)
              /\ FNear(CubicF(bis.ret[1]), 0, 1, 10)

\* The call on [1, 2] has returned 1595283 / 2^20 = 1.5213804244995117, the
\* value the notebook prints.
C15_Witness ==
    /\ bis.pc = "returned"
    /\ bis.l0 = FromInt(1) /\ bis.h0 = FromInt(2)
    /\ bis.ret = Some(FRound(1595283, -20))

\* C16: newton on f = x**3, df = 3*x**2 from the initial guess 1.5 with the
\* default tolerance and budget raises neither error, and returns, within
\* 100 iterations, a value near 0 (closer than twice the tolerance).
C16_CubeFromOneAndAHalf ==
    (nw.pc # "idle" /\ nw.guess = FDiv(FromInt(3), FromInt(2))) =>
        /\ nw.pc # "raised"
        /\ nw.i < DefaultImax
        /\ nw.pc = "returned" => FNear(nw.ret[1], 0, 1, 2)

\* The call from 1.5 has returned in its 34th iteration a value that is
\* 1.5452e-06 to five figures, as in the notebook.
C16_Witness ==
    /\ nw.pc = "returned"
    /\ nw.guess = FDiv(FromInt(3), FromInt(2))
    /\ nw.i = 33
    /\ FLess(FDiv(FromInt(154515), FromInt(100000)),
             FMul(nw.ret[1], FromInt(1000000)))
    /\ FLess(FMul(nw.ret[1], FromInt(1000000)),
             FDiv(FromInt(154525), FromInt(100000)))

-----------------------------------------------------------------------------
(***************************************************************************)
(* Claims about bisection_index.                                           *)
(***************************************************************************)

\* C17: on a sorted list that has an element less than or equal to the
\* target, bisection_index returns the position i of the closest such
\* element: xs[i] <= target, and no element after position i is <= target.
C17_IndexOfClosestBelow ==
    (/\ idx.pc = "returned"
     /\ Len(idx.xs) >= 1
     /\ At(idx.xs, 0) <= idx.target) =>
        LET i == idx.ret[1]
        IN  /\ At(idx.xs, i) <= idx.target
            /\ \A j \in (i + 1)..(Len(idx.xs) - 1) : At(idx.xs, j) > idx.target

-----------------------------------------------------------------------------
(***************************************************************************)
(* Claims about jacobi_iteration and gauss_seidel_iteration.               *)
(***************************************************************************)

\* det(A) times the solution of A x = b, by Cramer's rule.
CramerNum(A, b) ==
    <<b[1] * A[2][2] - A[1][2] * b[2], A[1][1] * b[2] - A[2][1] * b[1]>>

\* |det(A)| times the largest distance, over the components, from x to the
\* solution of A x = b.
ErrTimesDet(A, b, x) ==
    NormInf([i \in 1..Dim |-> Det(A) * x[i] - CramerNum(A, b)[i]], Dim)

\* The sum of |a_ij| over j # i.
OffAbsSum(A, i) ==
    LET absrow == [j \in 1..Dim |-> Abs(A[i][j])]
        ones == [j \in 1..Dim |-> 1]
    IN  SumRange(absrow, ones, 1, i - 1) + SumRange(absrow, ones, i + 1, Dim)

StrictlyDominant(A) == \A i \in 1..Dim : Abs(A[i][i]) > OffAbsSum(A, i)

LargestDiag(A) == NormInf([i \in 1..Dim |-> A[i][i]], Dim)

LargestOff(A) == NormInf([i \in 1..Dim |-> OffAbsSum(A, i)], Dim)

\* The Jacobi sweep about to be made leaves x closer to the solution than
\* the iterate of two sweeps earlier was, or within rounding of the solution.
\* For two unknowns the error after two exact sweeps is the error before them
\* times a12 a21 / (a11 a22), so this is what convergence comes to; the
\* rounding of the two sweeps adds at most (LargestOff + 1) / 2.
CloserAfterTwoSweeps ==
    LET before == ErrTimesDet(lin.A, lin.b, lin.x_old)
        after == ErrTimesDet(lin.A, lin.b, lin'.x)
    IN  \/ after < before
        \/ 2 * after <= Abs(Det(lin.A)) * (LargestOff(lin.A) + 1)
                            * Abs(lin.A[1][1] * lin.A[2][2])

\* The Jacobi sweep about to be made leaves x closer to the solution than it
\* was, or within rounding of the solution.
CloserAfterSweep ==
    LET before == ErrTimesDet(lin.A, lin.b, lin.x)
        after == ErrTimesDet(lin.A, lin.b, lin'.x)
    IN  \/ after < before
        \/ 2 * after <= Abs(Det(lin.A)) * LargestDiag(lin.A)

RECURSIVE SumOver(_, _, _)
SumOver(S, row, y) ==
    IF S = {} THEN 0
    ELSE LET j == CHOOSE k \in S : TRUE
         IN  row[j] * y[j] + SumOver(S \ {j}, row, y)

\* C19: a sweep of gauss_seidel_iteration makes every x_i out of the new
\* values of the components before it and the old values of those after it,
\* x_i = (b_i - sum_{j<i} a_ij x_j(new) - sum_{j>i} a_ij x_j(old)) / a_ii;
\* a sweep of jacobi_iteration makes every x_i out of old values only,
\* x_i = (b_i - sum_{j#i} a_ij x_j(old)) / a_ii.
C19_SweepFormulas ==
    [][lin.pc = "body" =>
          \A i \in 1..Dim :
              IF lin.alg = "gauss_seidel"
              THEN lin'.x[i] =
                       Quot(lin.b[i]
                                - SumOver(1..(i - 1), lin.A[i], lin'.x)
                                - SumOver((i + 1)..Dim, lin.A[i], lin.x),
                            lin.A[i][i])
              ELSE lin'.x[i] =
                       Quot(lin.b[i]
                                - SumOver((1..Dim) \ {i}, lin.A[i], lin.x),
                            lin.A[i][i])]_vars

\* A second sweep of gauss_seidel_iteration has made an x that a Jacobi sweep
\* from the same x_old would not have made.
C19_Witness ==
    /\ lin.alg = "gauss_seidel"
    /\ lin.k >= 2
    /\ lin.x_old # Zeros
    /\ lin.x = GaussSeidelRows(lin.A, lin.b, lin.x_old, lin.x_old, 1)
    /\ lin.x # JacobiRows(lin.A, lin.b, lin.x_old, lin.x_old, 1)

ReturnedConverged == lin.pc = "returned" /\ lin.msg = MsgConverged

\* b_i - sum_j a_ij x_j
Residual(A, b, x, i) == b[i] - SumOver(1..Dim, A[i], x)

\* C20 as stated: a vector returned through the converged branch is within
\* tol, in every component, of the solution of A x = b (that np.linalg.solve
\* gives when A is not singular).
C20_ConvergedAgreesWithDirect ==
    (ReturnedConverged /\ Det(lin.A) # 0) =>
        ErrTimesDet(lin.A, lin.b, lin.ret[1]) < lin.tol * Abs(Det(lin.A))

\* C20, amended: a vector x returned through the converged branch is within
\* tol, in every component, of the iterate before it, and solves A x = b up
\* to a residual: |b_i - sum_j a_ij x_j| is at most the last step times the
\* sum of |a_ij| over j # i, plus the rounding |a_ii| / 2 of the division.
C20_ConvergedResidual ==
    ReturnedConverged =>
        LET x == lin.ret[1]
            step == StepNorm(x, lin.x_old)
        IN  /\ step < lin.tol
            /\ \A i \in 1..Dim :
                   2 * Abs(Residual(lin.A, lin.b, x, i))
                       <= 2 * OffAbsSum(lin.A, i) * step + Abs(lin.A[i][i])

\* A converged return, after sweeps that did not converge, of a vector that
\* is tol or more away from the solution and leaves a residual.
C20_Witness ==
    /\ ReturnedConverged
    /\ lin.k >= 1
    /\ Det(lin.A) # 0
    /\ ErrTimesDet(lin.A, lin.b, lin.ret[1]) >= lin.tol * Abs(Det(lin.A))
    /\ \E i \in 1..Dim : Residual(lin.A, lin.b, lin.ret[1], i) # 0

-----------------------------------------------------------------------------
(***************************************************************************)
(* Claims about the loop of bisection.                                     *)
(***************************************************************************)

\* C26: once the sign check has passed, at the start of every loop iteration
\* the function values at the bounds have opposite signs, f(l) * f(h) < 0,
\* and the bounds lie within the interval the caller passed.
C26_BracketKeepsSignChange ==
    bis.pc \in {"while", "body"} =>
        /\ bis.f[bis.l] * bis.f[bis.h] < 0
        /\ bis.l0 <= bis.l
        /\ bis.l <= bis.h
        /\ bis.h <= bis.h0

-----------------------------------------------------------------------------
(***************************************************************************)
(* RK4(f, x0, t0, dt, n), on one component of the state, in the floating   *)
(* point of the examples.                                                  *)
(***************************************************************************)

\* Largest slope and largest offset of the caller's right-hand side.
MaxSlope == 2
MaxShift == 1
\* Largest starting value, and largest number of steps.
MaxStart == 2
MaxSteps == 2

\* The caller's f: x |-> a*x + c, for p = <<a, c>>.
RhsOf(p, x) == FAdd(FMul(FromInt(p[1]), x), FromInt(p[2]))

\* The step sizes tried: 1, 0.5 and the notebook's 0.1.
StepSizes == {FDiv(FromInt(1), FromInt(d)) : d \in {1, 2, 10}}

\* 0.5*k
HalfOf(k) == FMul(FDiv(FromInt(1), FromInt(2)), k)

\* k1 = dt * f(X[-1])
SlopeK1(p, x, dt) == FMul(dt, RhsOf(p, x))

\* k2 = dt * f(X[-1] + 0.5*k1)
SlopeK2(p, x, dt, k1) == FMul(dt, RhsOf(p, FAdd(x, HalfOf(k1))))

\* k3 = dt * f(X[-1] + 0.5*k1)
SlopeK3(p, x, dt, k1, k2) == FMul(dt, RhsOf(p, FAdd(x, HalfOf(k1))))

\* k4 = dt * f(X[-1] + k3)
SlopeK4(p, x, dt, k3) == FMul(dt, RhsOf(p, FAdd(x, k3)))

\* X[-1] + k1/6 + k2/3 + k3/3 + k4/6, summed from the left
WeightedSum(x, k1, k2, k3, k4) ==
    FAdd(FAdd(FAdd(FAdd(x, FDiv(k1, FromInt(6))), FDiv(k2, FromInt(3))),
              FDiv(k3, FromInt(3))),
         FDiv(k4, FromInt(6)))

\* The last element of a non-empty list: X[-1], T[-1].
Last(s) == s[Len(s)]

\* T = [t0], X = [x0]; the four slopes have no value before the first step.
InitRK4 ==
    /\ \E a \in (-MaxSlope)..MaxSlope, c \in (-MaxShift)..MaxShift,
          x0 \in 0..MaxStart, dt \in StepSizes, n \in 0..MaxSteps :
          rk = [f |-> <<a, c>>, dt |-> dt, n |-> n, i |-> 0,
                T |-> <<FZero>>, X |-> <<FromInt(x0)>>,
                k1 |-> None, k2 |-> None, k3 |-> None, k4 |-> None,
                ret |-> None, pc |-> "for"]
    /\ OnlyRK4

\* for i in range(n), and the return after the loop.
RK4For ==
    /\ rk.pc = "for"
    /\ IF rk.i < rk.n
       THEN rk' = [rk EXCEPT !.pc = "body"]
       ELSE rk' = [rk EXCEPT !.pc = "returned", !.ret = Some(<<rk.T, rk.X>>)]
    /\ UNCHANGED NotRK4

\* One step: the four slopes, then the new time and the new state appended.
RK4Body ==
    /\ rk.pc = "body"
    /\ LET x == Last(rk.X)
           k1 == SlopeK1(rk.f, x, rk.dt)
           k2 == SlopeK2(rk.f, x, rk.dt, k1)
           k3 == SlopeK3(rk.f, x, rk.dt, k1, k2)
           k4 == SlopeK4(rk.f, x, rk.dt, k3)
       IN  rk' = [rk EXCEPT !.k1 = Some(k1), !.k2 = Some(k2),
                            !.k3 = Some(k3), !.k4 = Some(k4),
                            !.T = Append(rk.T, FAdd(Last(rk.T), rk.dt)),
                            !.X = Append(rk.X, WeightedSum(x, k1, k2, k3, k4)),
                            !.i = rk.i + 1, !.pc = "for"]
    /\ UNCHANGED NotRK4

NextRK4 == RK4For \/ RK4Body

SpecRK4 == InitRK4 /\ [][NextRK4]_vars

\* The state a step started from: the element before the last of X.
StepFrom == rk.X[Len(rk.X) - 1]

\* C21: each step of RK4 evaluates the four slopes of the method,
\* k1 = dt*f(Xn), k2 = dt*f(Xn + k1/2), k3 = dt*f(Xn + k2/2),
\* k4 = dt*f(Xn + k3), and appends Xn + k1/6 + k2/3 + k3/3 + k4/6.
C21_RK4StepFormulas ==
    (rk.pc # "idle" /\ rk.i > 0) =>
        /\ rk.k1[1] = FMul(rk.dt, RhsOf(rk.f, StepFrom))
        /\ rk.k2[1] = FMul(rk.dt, RhsOf(rk.f, FAdd(StepFrom, HalfOf(rk.k1[1]))))
        /\ rk.k3[1] = FMul(rk.dt, RhsOf(rk.f, FAdd(StepFrom, HalfOf(rk.k2[1]))))
        /\ rk.k4[1] = FMul(rk.dt, RhsOf(rk.f, FAdd(StepFrom, rk.k3[1])))
        /\ Last(rk.X) = WeightedSum(StepFrom, rk.k1[1], rk.k2[1], rk.k3[1],
                                    rk.k4[1])

-----------------------------------------------------------------------------
(***************************************************************************)
(* Claims about the arguments after a call.                                *)
(***************************************************************************)

\* newton_system on its start vector, or one of the two linear iterations on
\* its matrix and right-hand side.
InitOwned == InitNewtonSystem \/ InitLinear

NextOwned == NextNewtonSystem \/ NextLinear

SpecOwned == InitOwned /\ [][NextOwned]_vars

\* C22: no step of newton_system writes the array the caller passed as X0,
\* whether the call goes on, returns or raises, and no step of
\* jacobi_iteration or gauss_seidel_iteration writes A or b.
C22_ArgumentsUntouched ==
    [][/\ ns.pc # "idle" => ns'.arg = ns.arg
       /\ lin.pc # "idle" => (lin'.A = lin.A /\ lin'.b = lin.b)]_vars

\* newton_system has finished after moving its own X0 away from the vector
\* the caller passed.
C22_Witness ==
    /\ ns.pc \in {"returned", "raised"}
    /\ ns.i >= 1
    /\ ns.X0 # ns.arg

-----------------------------------------------------------------------------
(***************************************************************************)
(* mcpi_omp(n_total): the loop shared among the threads of the team, each  *)
(* with its private copy of n_inside (reduction(+:n_inside)).              *)
(***************************************************************************)

\* Largest number of samples, and largest team of threads.
MaxTotal == 3
MaxThreads == 2

\* The combination of the reduction: the private copy is added to the shared
\* variable; the runtime makes this step atomic.
Combine_Overwrite(shared, private) == private

Combine(shared, private) == shared + private

\* The iterations the schedule gave thread t that t has not started yet.
Remaining(c, t) == {i \in 0..(c.n_total - 1) : c.owner[i] = t /\ c.ran[i] = 0}

\* The smallest element of a non-empty set of iterations.
Least(S) == CHOOSE i \in S : \A j \in S : i <= j

\* int n_inside = 0, then the team starts: the schedule (owner) gives every
\* iteration to one thread, every private copy starts at 0.  ran counts the
\* executions of an iteration and hit memorises the samples that fell inside
\* the circle.
InitOmp ==
    /\ \E n \in 0..MaxTotal, T \in 1..MaxThreads :
          \E o \in [0..(n - 1) -> 1..T] :
             omp = [n_total |-> n, threads |-> T, owner |-> o,
                    n_inside |-> 0,
                    private |-> [t \in 1..T |-> 0],
                    i |-> [t \in 1..T |-> None],
                    inside |-> [t \in 1..T |-> FALSE],
                    tpc |-> [t \in 1..T |-> "for"],
                    ran |-> [i \in 0..(n - 1) |-> 0],
                    hit |-> {},
                    ret |-> None, pc |-> "parallel"]
    /\ OnlyOmp

\* Thread t at the loop header: its next iteration, or, when it has none
\* left, the end of its share, where its private copy is combined.
OmpFor(t) ==
    /\ omp.pc = "parallel"
    /\ omp.tpc[t] = "for"
    /\ IF Remaining(omp, t) # {}
       THEN omp' = [omp EXCEPT !.i[t] = Some(Least(Remaining(omp, t))),
                               !.tpc[t] = "sample"]
       ELSE omp' = [omp EXCEPT !.n_inside = Combine(@, omp.private[t]),
                               !.tpc[t] = "done"]
    /\ UNCHANGED NotOmp

\* Thread t draws x and y and evaluates x*x + y*y < 1.0.  rand() keeps one
\* hidden state for all threads, so nothing is known about the two numbers:
\* the test can come out either way.
OmpSample(t) ==
    /\ omp.pc = "parallel"
    /\ omp.tpc[t] = "sample"
    /\ \E in \in BOOLEAN :
          omp' = [omp EXCEPT !.inside[t] = in,
                             !.ran[omp.i[t][1]] = @ + 1,
                             !.hit = IF in THEN @ \union {omp.i[t][1]} ELSE @,
                             !.tpc[t] = "count"]
    /\ UNCHANGED NotOmp

\* ++n_inside on the private copy of thread t.
OmpCount(t) ==
    /\ omp.pc = "parallel"
    /\ omp.tpc[t] = "count"
    /\ omp' = [omp EXCEPT !.private[t] = IF omp.inside[t] THEN @ + 1 ELSE @,
                          !.tpc[t] = "for"]
    /\ UNCHANGED NotOmp

\* return n_inside, after the barrier that ends the parallel region.
OmpReturn ==
    /\ omp.pc = "parallel"
    /\ \A t \in 1..omp.threads : omp.tpc[t] = "done"
    /\ omp' = [omp EXCEPT !.pc = "returned", !.ret = Some(omp.n_inside)]
    /\ UNCHANGED NotOmp

OmpThread == \E t \in 1..MaxThreads :
    /\ omp.pc # "idle"
    /\ t <= omp.threads
    /\ (OmpFor(t) \/ OmpSample(t) \/ OmpCount(t))

NextOmp == OmpThread \/ OmpReturn

SpecOmp == InitOmp /\ [][NextOmp]_vars

\* C23: whatever the interleaving of the threads, the value mcpi_omp returns
\* is the number of iterations whose sample satisfied x*x + y*y < 1 (no
\* increment is lost or counted twice), and each of the n_total iterations
\* was executed exactly once.
C23_ReductionCountsEveryHit ==
    omp.pc = "returned" =>
        /\ omp.ret[1] = Cardinality(omp.hit)
        /\ \A i \in 0..(omp.n_total - 1) : omp.ran[i] = 1

\* Two threads both counted a hit, and the call returned.
C23_Witness ==
    /\ omp.pc = "returned"
    /\ omp.threads >= 2
    /\ \A t \in 1..2 : omp.private[t] >= 1
    /\ omp.ret[1] >= 2

-----------------------------------------------------------------------------
(***************************************************************************)
(* The MPI program: every rank seeds rand(), samples its share and adds    *)
(* its count to the sum kept by rank 0, which prints the estimate.         *)
(***************************************************************************)

\* Largest number of processes started, and the seconds the wall clock can
\* advance while they run.
MaxSize == 3
MaxClock == 2

\* int n_total = 1000000;
TotalSamples == 1000000

\* time(NULL)+rank.  The clock counts seconds from the start of the run; the
\* sum stays far below 2^32, so its conversion to the unsigned int srand
\* takes changes nothing.
SeedOf(now, rank) == now + rank

\* int l_total = n_total / size;
Share(n_total, size) == n_total \div size

\* The counts mcpi_loop(l_total) can return that the model follows: no sample
\* inside the circle, half of them, all of them.
LoopCounts(l_total) == {0, l_total \div 2, l_total}

\* mpirun -np size: every rank is at srand, nothing is sampled or summed yet.
\* drawn counts the samples drawn by all ranks together.
InitMpi ==
    /\ \E size \in 1..MaxSize :
          mpi = [size |-> size, n_total |-> TotalSamples, now |-> 0,
                 l_total |-> Share(TotalSamples, size),
                 seed |-> [r \in 0..(size - 1) |-> None],
                 l_inside |-> [r \in 0..(size - 1) |-> None],
                 rpc |-> [r \in 0..(size - 1) |-> "srand"],
                 sum |-> 0, n_inside |-> 0, drawn |-> 0, pi |-> None]
    /\ OnlyMpi

\* A second of wall-clock time passes.
MpiTick ==
    /\ mpi # Idle
    /\ mpi.now < MaxClock
    /\ mpi' = [mpi EXCEPT !.now = @ + 1]
    /\ UNCHANGED NotMpi

\* srand(time(NULL)+rank) on rank r: the clock is read when r gets there.
MpiSrand(r) ==
    /\ mpi.rpc[r] = "srand"
    /\ mpi' = [mpi EXCEPT !.seed[r] = Some(SeedOf(mpi.now, r)),
                          !.rpc[r] = "loop"]
    /\ UNCHANGED NotMpi

\* int l_inside = mcpi_loop(l_total) on rank r: l_total samples are drawn.
MpiLoop(r) ==
    /\ mpi.rpc[r] = "loop"
    /\ \E c \in LoopCounts(mpi.l_total) :
          mpi' = [mpi EXCEPT !.l_inside[r] = Some(c),
                             !.drawn = @ + mpi.l_total,
                             !.rpc[r] = "reduce"]
    /\ UNCHANGED NotMpi

\* MPI_Reduce(..., MPI_SUM, 0, ...) on a rank other than 0: its count is
\* sent to the sum, and the rank goes on to MPI_Finalize.
MpiReduceSend(r) ==
    /\ r # 0
    /\ mpi.rpc[r] = "reduce"
    /\ mpi' = [mpi EXCEPT !.sum = @ + mpi.l_inside[r][1],
                          !.rpc[r] = "done"]
    /\ UNCHANGED NotMpi

\* MPI_Reduce on rank 0: it completes when every other rank has sent its
\* count, and leaves the sum of all counts in n_inside.
MpiReduceRoot ==
    /\ mpi # Idle
    /\ mpi.rpc[0] = "reduce"
    /\ \A r \in 1..(mpi.size - 1) : mpi.rpc[r] = "done"
    /\ mpi' = [mpi EXCEPT !.n_inside = mpi.sum + mpi.l_inside[0][1],
                          !.rpc[0] = "print"]
    /\ UNCHANGED NotMpi

\* double pi = 4.0 * n_inside / n_total on rank 0, kept as numerator and
\* denominator.
MpiPrint ==
    /\ mpi # Idle
    /\ mpi.rpc[0] = "print"
    /\ mpi' = [mpi EXCEPT !.pi = Some(<<4 * mpi.n_inside, mpi.n_total>>),
                          !.rpc[0] = "done"]
    /\ UNCHANGED NotMpi

MpiRank == \E r \in 0..(MaxSize - 1) :
    /\ mpi # Idle
    /\ r < mpi.size
    /\ (MpiSrand(r) \/ MpiLoop(r) \/ MpiReduceSend(r))

NextMpi == MpiTick \/ MpiRank \/ MpiReduceRoot \/ MpiPrint

SpecMpi == InitMpi /\ [][NextMpi]_vars

\* C24: no two ranks of one run call srand with the same value.
C24_SeedsDiffer ==
    mpi # Idle =>
        \A r, s \in 0..(mpi.size - 1) :
            (r # s /\ mpi.seed[r] # None /\ mpi.seed[s] # None)
                => mpi.seed[r] # mpi.seed[s]

\* C28: the number of samples drawn by all ranks together is the n_total by
\* which rank 0 divides the sum of the counts.
C28_DivisorIsSampleCount ==
    (mpi # Idle /\ mpi.pi # None) => mpi.drawn = mpi.pi[1][2]

-----------------------------------------------------------------------------
(***************************************************************************)
(* newton started at an exact root.                                        *)
(***************************************************************************)

\* The caller's f is zero at the starting point x0; df has any value there.
InitNewtonAtRoot ==
    /\ \E c \in NewtonCalls, d \in DfVals :
          nw = [c EXCEPT !.f = Extend(<<>>, c.x0, 0),
                         !.df = Extend(<<>>, c.x0, d)]
    /\ OnlyNewton

SpecNewtonAtRoot == InitNewtonAtRoot /\ [][NextNewton]_vars

\* The outcome claimed for a start at a root: x0 itself returned by the first
\* iteration when df(x0) # 0 and tol > 0, the zero-derivative error when
\* df(x0) = 0.
RootOutcome ==
    /\ (nw.df[nw.x0] # 0 /\ nw.tol > 0) =>
          /\ nw.pc = "returned"
          /\ nw.ret = Some(nw.x0)
          /\ nw.i = 0
    /\ nw.df[nw.x0] = 0 =>
          /\ nw.pc = "raised"
          /\ nw.err = ErrZeroDerivative

\* C27: a call of newton whose x0 is an exact root returns x0 itself in its
\* first iteration when df(x0) # 0 and tol > 0, and raises the
\* zero-derivative error when df(x0) = 0.
C27_ExactRootReturned == NewtonDone => RootOutcome

\* C27, for the calls that have a first iteration: those with imax >= 1.
C27_ExactRootReturnedWithBudget ==
    (NewtonDone /\ nw.imax >= 1) => RootOutcome

\* The root handed back by the first iteration.
C27_Witness ==
    /\ nw.pc = "returned"
    /\ nw.imax >= 1
    /\ nw.tol > 0
    /\ nw.f0 = Some(0)
    /\ nw.ret = Some(nw.x0)
    /\ nw.i = 0

-----------------------------------------------------------------------------
(***************************************************************************)
(* Claims about the budget of the linear iterations.                       *)
(***************************************************************************)

\* C25: jacobi_iteration and gauss_seidel_iteration make at most max_iter
\* sweeps; a sweep ends the call exactly when its change x - x_old has
\* infinity norm below tol, and then its x is returned as converged; when the
\* budget is used up the last iterate is returned with the 'did not fully
\* converge' message, and no path raises.
C25_SweepBudgetAndMessages ==
    [][lin.pc # "idle" =>
          /\ lin'.k <= lin'.max_iter
          /\ lin'.pc \in {"for", "body", "returned"}
          /\ lin'.pc = "body" => lin'.k < lin'.max_iter
          /\ lin.pc = "body" =>
                IF StepBelow(lin'.x, lin'.x_old, lin'.tol)
                THEN /\ lin'.pc = "returned"
                     /\ lin'.msg = MsgConverged
                     /\ lin'.ret = Some(lin'.x)
                     /\ lin'.k = lin.k
                ELSE /\ lin'.pc = "for"
                     /\ lin'.k = lin.k + 1
                     /\ lin'.ret = None
          /\ (lin.pc = "for" /\ lin'.pc = "returned") =>
                /\ lin.k = lin.max_iter
                /\ lin'.msg = MsgNotConverged
                /\ lin'.ret = Some(lin.x)]_vars

\* The budget of two or more sweeps used up without a change below tol: the
\* last iterate is handed back with the message.
C25_Witness ==
    /\ lin.pc = "returned"
    /\ lin.msg = MsgNotConverged
    /\ lin.k = lin.max_iter
    /\ lin.k >= 2
    /\ ~StepBelow(lin.x, lin.x_old, lin.tol)
    /\ lin.ret = Some(lin.x)

-----------------------------------------------------------------------------
(***************************************************************************)
(* bisection_index on any list, sorted or not.                             *)
(***************************************************************************)

\* Every list of at most MaxLen values.
AnyLists == UNION {[1..n -> 0..MaxVal] : n \in 0..MaxLen}

InitBisectionIndexAny ==
    /\ \E xs \in AnyLists, target \in 0..MaxVal :
          idx = [xs |-> xs, target |-> target, l |-> 0, h |-> Len(xs) - 1,
                 m |-> None, ret |-> None, pc |-> "while"]
    /\ OnlyBisectionIndex

SpecBisectionIndexAny == InitBisectionIndexAny /\ [][NextBisectionIndex]_vars

\* The call runs to completion on its thread: a step that can be taken is
\* taken.
SpecBisectionIndexFair ==
    SpecBisectionIndexAny /\ WF_vars(NextBisectionIndex)

\* On a list of two or more elements: 0 <= l < h <= len(xs) - 1, and an index
\* handed back is an index of the list.
IndexBounds ==
    Len(idx.xs) >= 2 =>
        /\ 0 <= idx.l
        /\ idx.l < idx.h
        /\ idx.h <= Len(idx.xs) - 1
        /\ idx.ret # None =>
              (0 <= idx.ret[1] /\ idx.ret[1] <= Len(idx.xs) - 1)

\* A loop body takes a middle index strictly between l and h, and leaves
\* h - l smaller than it was.
IndexGapShrinks ==
    idx.pc = "body" =>
        /\ idx.l < idx'.m[1]
        /\ idx'.m[1] < idx.h
        /\ idx'.h - idx'.l < idx.h - idx.l

\* C29: bisection_index terminates for every input; on a list of two or more
\* elements it keeps 0 <= l < h <= len(xs) - 1 at every step and returns a
\* valid index; in every iteration the middle index lies strictly between l
\* and h and h - l strictly decreases.
C29_IndexSearchTerminates ==
    /\ <>(idx.pc = "returned")
    /\ [](idx.pc # "idle" => IndexBounds)
    /\ [][idx.pc # "idle" => IndexGapShrinks]_vars

\* A search of a list of four elements that took two iterations.
C29_Witness ==
    /\ idx.pc = "returned"
    /\ Len(idx.xs) >= 4
    /\ idx.m # None
    /\ idx.h - idx.l = 1
    /\ idx.ret = Some(idx.l)
    /\ idx.l >= 1

-----------------------------------------------------------------------------
(***************************************************************************)
(* tik() and tok(): the wall clock read into t0, read again into t1, and   *)
(* the difference split into milliseconds and nanoseconds.  A reading is   *)
(* <<tv_sec, tv_nsec>>, counted from the first reading the model follows.  *)
(***************************************************************************)

\* dt.tv_nsec += 1000000000
NsPerSec == 1000000000
\* dt.tv_nsec / 1000000, dt.tv_nsec % 1000000
NsPerMs == 1000000
\* dt.tv_sec * 1000
MsPerSec == 1000

\* The seconds and nanoseconds of the readings followed: short intervals,
\* and intervals around 2147483.647 s (24.8 days), where the milliseconds
\* reach 2^31 - 1.
ClockSecs == {0, 1, 2147483, 2147484}

ClockNsecs == {0, 1, 999999, 647000000, 648000000, 999999999}

ClockReadings == ClockSecs \X ClockNsecs

\* Reading a is not later than reading b.
NotLater(a, b) == a[1] < b[1] \/ (a[1] = b[1] /\ a[2] <= b[2])

\* The conversion of the long q + secs * 1000 (0 <= q < 1000, secs >= 0) to the
\* 32-bit int ms: the value itself up to 2^31 - 1 = 2147483 * 1000 + 647,
\* and beyond that the value less 2^32 = 4294967 * 1000 + 296, as gcc
\* converts.
AsInt(q, secs) ==
    IF secs < 2147483 \/ (secs = 2147483 /\ q <= 647)
    THEN q + secs * MsPerSec
    ELSE (secs - 4294966) * MsPerSec + (q - 296 - MsPerSec)

\* if(dt.tv_nsec < 0) { dt.tv_nsec += 1000000000; dt.tv_sec--; }
Borrow(dt) == IF dt[2] < 0 THEN <<dt[1] - 1, dt[2] + NsPerSec>> ELSE dt

\* The program is about to call tik(); the clock shows any of the readings.
InitTimer ==
    /\ \E now \in ClockReadings :
          tmr = [now |-> now, t0 |-> None, t1 |-> None, dt |-> None,
                 ms |-> None, ns |-> None, ret |-> None, pc |-> "tik"]
    /\ OnlyTimer

\* tik(): clock_gettime(CLOCK_REALTIME, &t0)
Tik ==
    /\ tmr.pc = "tik"
    /\ tmr' = [tmr EXCEPT !.t0 = Some(tmr.now), !.pc = "timed"]
    /\ UNCHANGED NotTimer

\* The timed code runs: the clock moves on to a later reading.
TimerAdvance ==
    /\ tmr.pc = "timed"
    /\ \E later \in ClockReadings :
          /\ NotLater(tmr.now, later)
          /\ later # tmr.now
          /\ tmr' = [tmr EXCEPT !.now = later]
    /\ UNCHANGED NotTimer

\* tok(): clock_gettime(CLOCK_REALTIME, &t1)
TokRead ==
    /\ tmr.pc = "timed"
    /\ tmr' = [tmr EXCEPT !.t1 = Some(tmr.now), !.pc = "diff"]
    /\ UNCHANGED NotTimer

\* dt.tv_nsec = t1.tv_nsec - t0.tv_nsec; dt.tv_sec = t1.tv_sec - t0.tv_sec
TokDiff ==
    /\ tmr.pc = "diff"
    /\ tmr' = [tmr EXCEPT !.dt = Some(<<tmr.t1[1][1] - tmr.t0[1][1],
                                        tmr.t1[1][2] - tmr.t0[1][2]>>),
                          !.pc = "borrow"]
    /\ UNCHANGED NotTimer

\* The borrow of a second when the nanoseconds came out negative.
TokBorrow ==
    /\ tmr.pc = "borrow"
    /\ tmr' = [tmr EXCEPT !.dt = Some(Borrow(tmr.dt[1])), !.pc = "split"]
    /\ UNCHANGED NotTimer

\* int ms = dt.tv_nsec / 1000000 + dt.tv_sec * 1000;
\* int ns = dt.tv_nsec % 1000000;
TokSplit ==
    /\ tmr.pc = "split"
    /\ tmr' = [tmr EXCEPT !.ms = Some(AsInt(tmr.dt[1][2] \div NsPerMs,
                                            tmr.dt[1][1])),
                          !.ns = Some(tmr.dt[1][2] % NsPerMs),
                          !.pc = "return"]
    /\ UNCHANGED NotTimer

\* return ms + 1e-6 * ns: the value is kept as its two terms, whole
\* milliseconds and nanoseconds.
TokReturn ==
    /\ tmr.pc = "return"
    /\ tmr' = [tmr EXCEPT !.ret = Some(<<tmr.ms[1], tmr.ns[1]>>),
                          !.pc = "returned"]
    /\ UNCHANGED NotTimer

NextTimer ==
    Tik \/ TimerAdvance \/ TokRead \/ TokDiff \/ TokBorrow \/ TokSplit
        \/ TokReturn

SpecTimer == InitTimer /\ [][NextTimer]_vars

\* The time between the two readings, as whole seconds and the nanoseconds
\* left over.
Elapsed ==
    LET a == tmr.t0[1]
        b == tmr.t1[1]
    IN  IF b[2] >= a[2] THEN <<b[1] - a[1], b[2] - a[2]>>
        ELSE <<b[1] - a[1] - 1, b[2] - a[2] + NsPerSec>>

\* ms * 1000000 + ns is the elapsed time in nanoseconds: ms holds the whole
\* milliseconds of it (1000 for each second and one for each 1000000 ns of
\* the rest) and ns the nanoseconds left over.
SplitsElapsed(millis, nanos) ==
    /\ millis \div MsPerSec = Elapsed[1]
    /\ millis % MsPerSec = Elapsed[2] \div NsPerMs
    /\ nanos = Elapsed[2] % NsPerMs

\* C30: in tok(), when the second reading is not earlier than the first, the
\* nanosecond difference lies in [0, 10^9) after the borrow step and the
\* integers ms and ns satisfy ms * 1000000 + ns = elapsed nanoseconds, so the
\* value returned is the elapsed time in milliseconds.
C30_TokSplitsElapsedTime ==
    /\ tmr.pc \in {"split", "return", "returned"} =>
          (0 <= tmr.dt[1][2] /\ tmr.dt[1][2] < NsPerSec)
    /\ tmr.pc \in {"return", "returned"} =>
          SplitsElapsed(tmr.ms[1], tmr.ns[1])
    /\ tmr.pc = "returned" => SplitsElapsed(tmr.ret[1][1], tmr.ret[1][2])

=============================================================================
